---- MODULE Spec2Model ----
(***************************************************************************)
(* A model of clapety-clap-rs (src/clapety-clap-rs/src/lib.rs, main.rs):   *)
(* the resampler, the log-mel spectrogram window loop, the embedding       *)
(* backends, the tag ranker and the batch driver infer_paths.              *)
(*                                                                         *)
(* Numbers.  usize values are naturals.  f32 values that decide a length   *)
(* or an index (the resampling ratio, the source position, the hop) are    *)
(* modelled bit-exactly as IEEE-754 binary32 values [m, e] standing for    *)
(* m * 2^e with 2^23 <= m < 2^24 (or m = 0), rounded to nearest, ties to   *)
(* even, the way the hardware rounds every single operation.               *)
(***************************************************************************)
EXTENDS Integers, Naturals, Sequences, FiniteSets, TLC

VARIABLES
    decode,     \* one call of decode_and_resample
    resample,   \* one call of linear_resample
    mel,        \* one call of log_mel_spectrogram
    backend,    \* the EmbeddingBackend instance
    call,       \* one call of a backend method
    pc,         \* position of main / infer_paths
    paths,      \* the input paths (Args.paths)
    top_k,      \* cfg.top_k
    files,      \* the discovered files (expand_audio_files)
    results,    \* the FileCaptions collected so far inside infer_paths
    ret,        \* what infer_paths returned to its caller
    stdout,     \* the results printed by main
    opened,     \* the files infer_file has tried to open, in order
    sims,       \* infer_file's `sims` for the file it was last called on, before
                \* the sort; empty when it did not get that far
    audio_emb   \* infer_file's `audio_emb` for that file

pipeVars ==
    <<pc, paths, top_k, files, results, ret, stdout, opened, sims, audio_emb>>

vars == <<decode, resample, mel, backend, call, pc, paths, top_k, files, results, ret,
          stdout, opened, sims, audio_emb>>

----------------------------------------------------------------------------
(* IEEE-754 binary32 arithmetic on non-negative values *)

Pow2(k) == 2 ^ k

F32Zero == [m |-> 0, e |-> 0]

RECURSIVE F32Normalize(_, _)
F32Normalize(m, e) ==
    IF m = 0 THEN F32Zero
    ELSE IF m >= Pow2(23) THEN [m |-> m, e |-> e]
    ELSE F32Normalize(2 * m, e - 1)

\* `n as f32` for an integer 0 <= n < 2^24 (exactly representable)
F32FromNat(n) == F32Normalize(n, 0)

\* round to nearest, ties to even: mant is the 24-bit truncated mantissa,
\* roundBit the first dropped bit, sticky whether any later dropped bit is set
F32Round(mant, roundBit, sticky, e) ==
    LET up == roundBit = 1 /\ (sticky \/ mant % 2 = 1)
        m1 == IF up THEN mant + 1 ELSE mant
    IN  IF m1 = Pow2(24) THEN [m |-> Pow2(23), e |-> e + 1]
        ELSE [m |-> m1, e |-> e]

\* k further quotient bits of r / d by long division, r < d
RECURSIVE LongDiv(_, _, _, _)
LongDiv(q, r, d, k) ==
    IF k = 0 THEN [q |-> q, r |-> r]
    ELSE IF 2 * r >= d THEN LongDiv(2 * q + 1, 2 * r - d, d, k - 1)
    ELSE LongDiv(2 * q, 2 * r, d, k - 1)

\* x / y in f32, y > 0
F32Div(x, y) ==
    IF x.m = 0 THEN F32Zero
    ELSE LET ge == x.m >= y.m
             \* 25 significant quotient bits: 24 kept and the round bit
             d  == LongDiv(x.m \div y.m, x.m % y.m, y.m, IF ge THEN 24 ELSE 25)
         IN  F32Round(d.q \div 2, d.q % 2, d.r # 0,
                      x.e - y.e - (IF ge THEN 23 ELSE 24))

\* x * y in f32; the 48-bit product of the mantissas is formed in 12-bit limbs
F32Mul(x, y) ==
    IF x.m = 0 \/ y.m = 0 THEN F32Zero
    ELSE LET L    == Pow2(12)
             a1   == x.m \div L
             a0   == x.m % L
             b1   == y.m \div L
             b0   == y.m % L
             low  == a0 * b0
             mid  == a1 * b0 + a0 * b1 + (low \div L)
             hi   == a1 * b1 + (mid \div L)
             rem  == (mid % L) * L + (low % L)
             \* product = hi * 2^24 + rem, 2^22 <= hi < 2^24
         IN  IF hi >= Pow2(23)
             THEN F32Round(hi, rem \div Pow2(23), rem % Pow2(23) # 0,
                           x.e + y.e + 24)
             ELSE F32Round(2 * hi + (rem \div Pow2(23)),
                           (rem % Pow2(23)) \div Pow2(22),
                           rem % Pow2(22) # 0,
                           x.e + y.e + 23)

\* x.floor() as usize
F32Floor(x) ==
    IF x.m = 0 THEN 0
    ELSE IF x.e >= 0 THEN x.m * Pow2(x.e)
    ELSE IF 0 - x.e >= 24 THEN 0
    ELSE x.m \div Pow2(0 - x.e)

\* x.ceil() as usize
F32Ceil(x) ==
    IF x.m = 0 THEN 0
    ELSE IF x.e >= 0 THEN x.m * Pow2(x.e)
    ELSE IF 0 - x.e >= 24 THEN 1
    ELSE (x.m \div Pow2(0 - x.e))
         + (IF x.m % Pow2(0 - x.e) # 0 THEN 1 ELSE 0)

----------------------------------------------------------------------------
(* linear_resample *)

\* largest input length drawn for linear_resample
MaxResampleLen == 27

\* sample rates drawn for linear_resample
ResampleRates == {3, 13, 55}

\* idx0 of output index i: (i as f32 / ratio).floor() as usize
resample_idx0(i, ratio) == F32Floor(F32Div(F32FromNat(i), ratio))

\* The buffer is modelled by its length.  The result is the number of samples
\* pushed, or a panic when input[idx0] is read with idx0 >= input.len().
linear_resample(len, src_sr, dst_sr) ==
    IF src_sr = dst_sr \/ len = 0
    THEN [panic |-> FALSE, len |-> len]
    ELSE LET ratio   == F32Div(F32FromNat(dst_sr), F32FromNat(src_sr))
             out_len == F32Ceil(F32Mul(F32FromNat(len), ratio))
             oob     == {i \in 0..(out_len - 1) : resample_idx0(i, ratio) >= len}
         IN  IF oob = {}
             THEN [panic |-> FALSE, len |-> out_len]
             ELSE [panic |-> TRUE, len |-> 0]

\* x - x.floor(), exact in f32
F32Frac(x) ==
    IF x.m = 0 \/ x.e >= 0 THEN F32Zero
    ELSE IF 0 - x.e >= 24 THEN x
    ELSE F32Normalize(x.m % Pow2(0 - x.e), x.e)

\* The samples of the output buffer, each described by where it comes from, so
\* that the description holds for every input buffer: Copy(j) is input[j]
\* itself, Blend(j, frac) is input[j] * (1.0 - frac) + input[j + 1] * frac
Copy(j) == [kind |-> "copy", lo |-> j, frac |-> F32Zero]

Blend(j, frac) == [kind |-> "blend", lo |-> j, frac |-> frac]

\* one iteration of `for i in 0..out_len`: the sample pushed for index i
resample_sample(i, len, ratio) ==
    LET src_pos == F32Div(F32FromNat(i), ratio)
        idx0    == F32Floor(src_pos)
    IN  IF idx0 + 1 >= len THEN Copy(idx0) ELSE Blend(idx0, F32Frac(src_pos))

\* a linear_resample without the early return of input.to_vec()
resample_buffer_no_shortcut(len, src_sr, dst_sr) ==
    LET ratio   == F32Div(F32FromNat(dst_sr), F32FromNat(src_sr))
        out_len == F32Ceil(F32Mul(F32FromNat(len), ratio))
    IN  [k \in 1..out_len |-> resample_sample(k - 1, len, ratio)]

\* the buffer linear_resample returns when it does not panic; element k of the
\* sequence is out[k - 1]
resample_buffer(len, src_sr, dst_sr) ==
    IF src_sr = dst_sr \/ len = 0
    THEN [k \in 1..len |-> Copy(k - 1)]
    ELSE LET ratio   == F32Div(F32FromNat(dst_sr), F32FromNat(src_sr))
             out_len == F32Ceil(F32Mul(F32FromNat(len), ratio))
         IN  [k \in 1..out_len |-> resample_sample(k - 1, len, ratio)]

\* no embedding computed (an embedding has n2 > 0)
NoEmbedding == [v |-> <<>>, n2 |-> 0, nan |-> {}]

\* the parts of the state a specification does not exercise
BackendIdle == [kind |-> "none"]

CallIdle == [op |-> "none", bytes |-> "none", n |-> 0, vecs |-> <<>>]

PipeIdle ==
    /\ pc = "idle"
    /\ paths = <<>>
    /\ top_k = 0
    /\ files = <<>>
    /\ results = <<>>
    /\ ret = [kind |-> "none"]
    /\ stdout = <<>>
    /\ opened = <<>>
    /\ sims = <<>>
    /\ audio_emb = NoEmbedding

MelIdle == [pc |-> "idle", len |-> 0, sr |-> 0, idx |-> 0, out |-> 0]

DecodeIdle ==
    [pc |-> "idle", probe |-> FALSE, rate |-> 0, target |-> 0, all |-> <<>>,
     next |-> 0, pcm |-> <<>>, out |-> 0, sr |-> 0]

ResampleIdle ==
    [pc |-> "idle", len |-> 0, src |-> 0, dst |-> 0, out |-> 0, buf |-> <<>>]

InitResample ==
    /\ decode = DecodeIdle
    /\ mel = MelIdle
    /\ backend = BackendIdle
    /\ call = CallIdle
    /\ PipeIdle
    /\ resample \in {[pc |-> "call", len |-> n, src |-> s, dst |-> d, out |-> 0,
                         buf |-> <<>>] :
                        n \in 0..MaxResampleLen, s \in ResampleRates, d \in ResampleRates}

\* linear_resample returns its output buffer
ResampleReturn ==
    /\ resample.pc = "call"
    /\ LET r == linear_resample(resample.len, resample.src, resample.dst)
       IN  /\ ~r.panic
           /\ resample' =
                 [resample EXCEPT
                     !.pc = "returned", !.out = r.len,
                     !.buf = resample_buffer(resample.len, resample.src, resample.dst)]
    /\ UNCHANGED <<decode, mel, backend, call, pipeVars>>

\* linear_resample panics on an out-of-bounds index
ResamplePanic ==
    /\ resample.pc = "call"
    /\ linear_resample(resample.len, resample.src, resample.dst).panic
    /\ resample' = [resample EXCEPT !.pc = "panicked"]
    /\ UNCHANGED <<decode, mel, backend, call, pipeVars>>

NextResample == ResampleReturn \/ ResamplePanic

SpecResample == InitResample /\ [][NextResample]_vars

----------------------------------------------------------------------------
(* log_mel_spectrogram *)

n_fft == 1024
win_len == n_fft
n_mels == 64

\* 0.01f32 = 0x3C23D70A = 10737418 * 2^-30
F32_0_01 == [m |-> 10737418, e |-> 0 - 30]

\* let hop = (sample_rate as f32 * 0.01) as usize
mel_hop(sample_rate) == F32Floor(F32Mul(F32FromNat(sample_rate), F32_0_01))

\* sample rates drawn for log_mel_spectrogram
MelRates == {1, 99, 100, 150, 250, 22050, 44150, 48000}

\* PCM lengths drawn reach MaxMelHops hops and MaxPcmExtra samples past one window
MaxMelHops == 2
MaxPcmExtra == 2

MelLens(sr) ==
    {0, 1, win_len - 1}
    \cup {win_len + k * mel_hop(sr) + j : k \in 0..MaxMelHops, j \in 0..MaxPcmExtra}

\* frames the output vector can hold before the allocation fails; more than any
\* drawn input yields with a hop of at least one sample
MelFrameCap == MaxMelHops + MaxPcmExtra + 2

InitMel ==
    /\ decode = DecodeIdle
    /\ resample = ResampleIdle
    /\ backend = BackendIdle
    /\ call = CallIdle
    /\ PipeIdle
    /\ mel \in {[pc |-> "call", len |-> n, sr |-> sr, idx |-> 0, out |-> 0] :
                   sr \in MelRates, n \in UNION {MelLens(r) : r \in MelRates}}
    /\ mel.len \in MelLens(mel.sr)

\* if pcm.is_empty() { return vec![]; }
MelEmpty ==
    /\ mel.pc = "call"
    /\ mel.len = 0
    /\ mel' = [mel EXCEPT !.pc = "done"]
    /\ UNCHANGED <<decode, resample, backend, call, pipeVars>>

\* the window, the filterbank and the FFT plan are built; idx = 0, out = []
MelSetup ==
    /\ mel.pc = "call"
    /\ mel.len # 0
    /\ mel' = [mel EXCEPT !.pc = "loop", !.idx = 0, !.out = 0]
    /\ UNCHANGED <<decode, resample, backend, call, pipeVars>>

\* one iteration of `while idx + win_len <= pcm.len()`: n_mels values are
\* pushed (one per filterbank row) and idx += hop
MelWindow ==
    /\ mel.pc = "loop"
    /\ mel.idx + win_len <= mel.len
    /\ mel.out < MelFrameCap * n_mels
    /\ mel' = [mel EXCEPT !.out = @ + n_mels, !.idx = @ + mel_hop(mel.sr)]
    /\ UNCHANGED <<decode, resample, backend, call, pipeVars>>

\* the loop condition fails: `out` is returned
MelReturn ==
    /\ mel.pc = "loop"
    /\ ~(mel.idx + win_len <= mel.len)
    /\ mel' = [mel EXCEPT !.pc = "done"]
    /\ UNCHANGED <<decode, resample, backend, call, pipeVars>>

\* the loop condition still holds but `out` cannot grow any further: the
\* allocation fails and the process aborts
MelExhaust ==
    /\ mel.pc = "loop"
    /\ mel.idx + win_len <= mel.len
    /\ mel.out >= MelFrameCap * n_mels
    /\ mel' = [mel EXCEPT !.pc = "aborted"]
    /\ UNCHANGED <<decode, resample, backend, call, pipeVars>>

NextMel == MelEmpty \/ MelSetup \/ MelWindow \/ MelReturn \/ MelExhaust

SpecMel == InitMel /\ [][NextMel]_vars

(* log_mel_spectrogram and decode_and_resample as functions of their inputs *)

RECURSIVE mel_loop(_, _, _, _)
mel_loop(idx, out, len, hop) ==
    IF idx + win_len <= len
    THEN mel_loop(idx + hop, out + n_mels, len, hop)
    ELSE out

\* the length of the vector log_mel_spectrogram returns for `len` PCM samples;
\* with hop = 0 and at least one window of samples the loop never ends
log_mel_spectrogram(len, sample_rate) ==
    LET hop == mel_hop(sample_rate)
    IN  IF len = 0 THEN [diverges |-> FALSE, out |-> 0]
        ELSE IF hop = 0 /\ win_len <= len THEN [diverges |-> TRUE, out |-> 0]
        ELSE [diverges |-> FALSE, out |-> mel_loop(0, 0, len, hop)]

\* A byte buffer is described by what symphonia makes of it: whether a format,
\* a default track and a decoder are found (probe), the stream's sample rate,
\* and the outcome of each packet read in turn:
\*   "ok"           decodes to `frames` frames of F32, S16 or U8 samples
\*   "other_fmt"    decodes to `frames` frames of another sample format
\*   "other_track"  belongs to another track
\*   "decode_error" decoder.decode fails with DecodeError
\*   "fatal"        decoder.decode fails with any other error
\*   "read_error"   format.next_packet fails
\* After the last packet next_packet fails (end of stream).
Packet(kind, frames) == [kind |-> kind, frames |-> frames]

\* the packet loop; pcm is the number of mono samples pushed so far
RECURSIVE decode_packets(_, _)
decode_packets(packets, pcm) ==
    IF packets = <<>> THEN pcm
    ELSE LET p == Head(packets)
         IN  CASE p.kind = "read_error"   -> pcm
               [] p.kind = "other_track"  -> decode_packets(Tail(packets), pcm)
               [] p.kind = "ok"           -> decode_packets(Tail(packets), pcm + p.frames)
               [] p.kind = "decode_error" -> decode_packets(Tail(packets), pcm)
               [] p.kind = "fatal"        -> pcm
               [] p.kind = "other_fmt"    -> decode_packets(Tail(packets), pcm)

\* (pcm length, sample rate) returned, or a panic inside linear_resample
decode_and_resample(bytes, target_sr) ==
    IF ~bytes.probe THEN [panic |-> FALSE, len |-> 0, sr |-> target_sr]
    ELSE LET pcm    == decode_packets(bytes.packets, 0)
             src_sr == bytes.rate
         IN  IF src_sr # target_sr /\ pcm # 0
             THEN LET r == linear_resample(pcm, src_sr, target_sr)
                  IN  [panic |-> r.panic, len |-> r.len, sr |-> target_sr]
             ELSE [panic |-> FALSE, len |-> pcm, sr |-> src_sr]

\* the byte buffers drawn as inputs
EmptyBytes == [bytes |-> "empty", probe |-> FALSE, rate |-> 0, packets |-> <<>>]
GarbageBytes == [bytes |-> "garbage", probe |-> FALSE, rate |-> 0, packets |-> <<>>]
ShortAudio ==
    [bytes |-> "short", probe |-> TRUE, rate |-> 48000,
     packets |-> <<Packet("ok", 100)>>]
OkAudio ==
    [bytes |-> "ok", probe |-> TRUE, rate |-> 48000,
     packets |-> <<Packet("ok", 1024), Packet("ok", 1024)>>]
CorruptAudio ==
    [bytes |-> "corrupt", probe |-> TRUE, rate |-> 48000,
     packets |-> <<Packet("ok", 1024), Packet("decode_error", 0),
                   Packet("other_track", 0), Packet("ok", 480),
                   Packet("fatal", 0), Packet("ok", 1000)>>]
OtherFmtAudio ==
    [bytes |-> "other_fmt", probe |-> TRUE, rate |-> 48000,
     packets |-> <<Packet("other_fmt", 2048)>>]
HalfRateAudio ==
    [bytes |-> "half_rate", probe |-> TRUE, rate |-> 24000,
     packets |-> <<Packet("ok", 600)>>]
CdClick ==
    [bytes |-> "cd_click", probe |-> TRUE, rate |-> 44100,
     packets |-> <<Packet("ok", 441)>>]

Contents ==
    {EmptyBytes, GarbageBytes, ShortAudio, OkAudio, CorruptAudio, OtherFmtAudio,
     HalfRateAudio, CdClick}

----------------------------------------------------------------------------
(* decode_and_resample, step by step *)

\* the packets drawn for the packet loop, and how many of them at most
PacketKinds ==
    {Packet("ok", 1), Packet("ok", 27), Packet("other_fmt", 1),
     Packet("other_track", 0), Packet("decode_error", 0), Packet("fatal", 0),
     Packet("read_error", 0)}

MaxPackets == 3

\* decode.all: the outcome of each packet read in turn; decode.next: the index
\* of the packet next_packet yields next; decode.pcm: the frames pushed so far,
\* as segments [pkt, frames] (the frames of packet pkt, channel-averaged)
InitDecode ==
    /\ resample = ResampleIdle
    /\ mel = MelIdle
    /\ backend = BackendIdle
    /\ call = CallIdle
    /\ PipeIdle
    /\ decode \in {[pc |-> "call", probe |-> pr, rate |-> r, target |-> t,
                    all |-> a, next |-> 1, pcm |-> <<>>, out |-> 0, sr |-> 0] :
                      pr \in BOOLEAN, r \in ResampleRates, t \in ResampleRates,
                      a \in UNION {[1..n -> PacketKinds] : n \in 0..MaxPackets}}
    /\ ~decode.probe => decode.all = <<>>

\* no format, no default track or no decoder: return (Vec::new(), target_sr)
DecodeProbeFails ==
    /\ decode.pc = "call"
    /\ ~decode.probe
    /\ decode' = [decode EXCEPT !.pc = "returned", !.out = 0, !.sr = decode.target]
    /\ UNCHANGED <<resample, mel, backend, call, pipeVars>>

\* the format, the track and the decoder are found; pcm = [], src_sr
DecodeOpen ==
    /\ decode.pc = "call"
    /\ decode.probe
    /\ decode' = [decode EXCEPT !.pc = "loop"]
    /\ UNCHANGED <<resample, mel, backend, call, pipeVars>>

\* the packet next_packet has just yielded
DecodeHead == decode.all[decode.next]

DecodeHasPacket ==
    /\ decode.pc = "loop"
    /\ decode.next <= Len(decode.all)
    /\ DecodeHead.kind # "read_error"

\* if packet.track_id() != track.id { continue; }
DecodeOtherTrack ==
    /\ DecodeHasPacket
    /\ DecodeHead.kind = "other_track"
    /\ decode' = [decode EXCEPT !.next = @ + 1]
    /\ UNCHANGED <<resample, mel, backend, call, pipeVars>>

\* Ok(AudioBufferRef::F32 | S16 | U8): the channel average of every frame is
\* pushed
DecodePush ==
    /\ DecodeHasPacket
    /\ DecodeHead.kind = "ok"
    /\ decode' = [decode EXCEPT
                     !.next = @ + 1,
                     !.pcm = Append(@, [pkt |-> decode.next,
                                        frames |-> DecodeHead.frames])]
    /\ UNCHANGED <<resample, mel, backend, call, pipeVars>>

\* `_ => {}`: a buffer of any other sample format is decoded and dropped
DecodeOtherFormat ==
    /\ DecodeHasPacket
    /\ DecodeHead.kind = "other_fmt"
    /\ decode' = [decode EXCEPT !.next = @ + 1]
    /\ UNCHANGED <<resample, mel, backend, call, pipeVars>>

\* Err(SymphoniaError::DecodeError(_)) => continue
DecodeSkip ==
    /\ DecodeHasPacket
    /\ DecodeHead.kind = "decode_error"
    /\ decode' = [decode EXCEPT !.next = @ + 1]
    /\ UNCHANGED <<resample, mel, backend, call, pipeVars>>

\* Err(_) => break
DecodeFatal ==
    /\ DecodeHasPacket
    /\ DecodeHead.kind = "fatal"
    /\ decode' = [decode EXCEPT !.pc = "after"]
    /\ UNCHANGED <<resample, mel, backend, call, pipeVars>>

\* next_packet fails (an error, or the end of the stream): the loop ends
DecodeReadFails ==
    /\ decode.pc = "loop"
    /\ IF decode.next <= Len(decode.all)
       THEN DecodeHead.kind = "read_error"
       ELSE TRUE
    /\ decode' = [decode EXCEPT !.pc = "after"]
    /\ UNCHANGED <<resample, mel, backend, call, pipeVars>>

\* pcm.len()
RECURSIVE PcmLen(_)
PcmLen(pcm) == IF pcm = <<>> THEN 0 ELSE Head(pcm).frames + PcmLen(Tail(pcm))

\* lines 168-172: the PCM is resampled when the rates differ and it is not
\* empty, and returned
DecodeFinish ==
    /\ decode.pc = "after"
    /\ \E n \in {PcmLen(decode.pcm)} :
          IF decode.rate # decode.target /\ n # 0
          THEN \E r \in {linear_resample(n, decode.rate, decode.target)} :
                  /\ ~r.panic
                  /\ decode' = [decode EXCEPT !.pc = "returned", !.out = r.len,
                                              !.sr = decode.target]
          ELSE decode' = [decode EXCEPT !.pc = "returned", !.out = n,
                                        !.sr = decode.rate]
    /\ UNCHANGED <<resample, mel, backend, call, pipeVars>>

\* linear_resample panics inside decode_and_resample
DecodeResamplePanic ==
    /\ decode.pc = "after"
    /\ \E n \in {PcmLen(decode.pcm)} :
          /\ decode.rate # decode.target /\ n # 0
          /\ linear_resample(n, decode.rate, decode.target).panic
    /\ decode' = [decode EXCEPT !.pc = "panicked"]
    /\ UNCHANGED <<resample, mel, backend, call, pipeVars>>

NextDecode ==
    \/ DecodeProbeFails
    \/ DecodeOpen
    \/ DecodeOtherTrack
    \/ DecodePush
    \/ DecodeOtherFormat
    \/ DecodeSkip
    \/ DecodeFatal
    \/ DecodeReadFails
    \/ DecodeFinish
    \/ DecodeResamplePanic

SpecDecode == InitDecode /\ [][NextDecode]_vars

----------------------------------------------------------------------------
(* Embedding vectors and cosine *)

\* A Vec<f32> is a record [v, n2, nan]: element i is the real number
\* v[i] / sqrt(n2), or NaN when i \in nan.  n2 = 1 for raw values.
RawVec(s) == [v |-> s, n2 |-> 1, nan |-> {}]

VecLen(x) == Len(x.v)

\* vec![0.0; n]
Zeros(n) == RawVec([i \in 1..n |-> 0])

RECURSIVE SumSqTo(_, _)
SumSqTo(s, n) == IF n = 0 THEN 0 ELSE s[n] * s[n] + SumSqTo(s, n - 1)

\* sum of x*x over the elements, in units of 1/n2
SumSq(x) == SumSqTo(x.v, Len(x.v))

\* v[0..n].to_vec()
VecSlice(x, n) ==
    [v |-> SubSeq(x.v, 1, n), n2 |-> x.n2, nan |-> x.nan \cap (1..n)]

\* x /= norm when norm > 0.0; a NaN norm fails the test and leaves v as it is
l2_normalize(x) ==
    IF x.nan # {} THEN x
    ELSE IF SumSq(x) > 0 THEN [x EXCEPT !.n2 = SumSq(x)]
    ELSE x

RECURSIVE GCD(_, _)
GCD(a, b) == IF b = 0 THEN a ELSE GCD(b, a % b)

\* A similarity is NaN or the number sign(c) * c^2 for the real cosine c, kept
\* as a fraction num/den in lowest terms: an order-preserving, exact image of
\* c, so two similarities are equal (or ordered) exactly when the cosines are.
SimNaN == [nan |-> TRUE, num |-> 0, den |-> 1]

SimZero == [nan |-> FALSE, num |-> 0, den |-> 1]

SimFrac(n, d) ==
    LET a == IF n < 0 THEN 0 - n ELSE n
        g == GCD(a, d)
    IN  [nan |-> FALSE, num |-> n \div g, den |-> d \div g]

\* a < b for two similarities that are not NaN
SimLess(a, b) == a.num * b.den < b.num * a.den

RECURSIVE DotTo(_, _, _)
DotTo(a, b, n) == IF n = 0 THEN 0 ELSE a[n] * b[n] + DotTo(a, b, n - 1)

Min(a, b) == IF a <= b THEN a ELSE b

\* a cosine that divides whatever the norms are: 0.0 / 0.0 is NaN
cosine_unguarded(a, b) ==
    LET n      == Min(VecLen(a), VecLen(b))
        dot    == DotTo(a.v, b.v, n)
        naZero == a.nan = {} /\ SumSq(a) = 0
        nbZero == b.nan = {} /\ SumSq(b) = 0
    IN  IF naZero \/ nbZero \/ a.nan # {} \/ b.nan # {} THEN SimNaN
        ELSE SimFrac((IF dot < 0 THEN 0 - 1 ELSE 1) * dot * dot,
                     SumSq(a) * SumSq(b))

\* dot / (na * nb), or 0.0 when a norm is 0.0; zip stops at the shorter vector
cosine(a, b) ==
    LET n      == Min(VecLen(a), VecLen(b))
        dot    == DotTo(a.v, b.v, n)
        dotNaN == (a.nan \cup b.nan) \cap (1..n) # {}
        naZero == a.nan = {} /\ SumSq(a) = 0
        nbZero == b.nan = {} /\ SumSq(b) = 0
    IN  IF naZero \/ nbZero THEN SimZero
        ELSE IF dotNaN \/ a.nan # {} \/ b.nan # {} THEN SimNaN
        ELSE SimFrac((IF dot < 0 THEN 0 - 1 ELSE 1) * dot * dot,
                     SumSq(a) * SumSq(b))

----------------------------------------------------------------------------
(* The embedding backends *)

DEFAULT_TAGS ==
    << <<"s", "p", "e", "e", "c", "h">>,
       <<"m", "a", "l", "e", " ", "v", "o", "i", "c", "e">>,
       <<"f", "e", "m", "a", "l", "e", " ", "v", "o", "i", "c", "e">>,
       <<"m", "u", "s", "i", "c">>,
       <<"i", "n", "s", "t", "r", "u", "m", "e", "n", "t", "a", "l">>,
       <<"d", "r", "u", "m", "s">>,
       <<"g", "u", "i", "t", "a", "r">>,
       <<"p", "i", "a", "n", "o">>,
       <<"b", "a", "s", "s">>,
       <<"s", "y", "n", "t", "h">>,
       <<"l", "o", "o", "p">>,
       <<"a", "m", "b", "i", "e", "n", "t">>,
       <<"c", "r", "o", "w", "d">>,
       <<"a", "p", "p", "l", "a", "u", "s", "e">>,
       <<"f", "o", "o", "t", "s", "t", "e", "p", "s">>,
       <<"r", "a", "i", "n">>,
       <<"w", "i", "n", "d">>,
       <<"b", "i", "r", "d", "s", "o", "n", "g">>,
       <<"e", "n", "g", "i", "n", "e">>,
       <<"n", "o", "i", "s", "e">> >>

\* number of DEFAULT_TAGS the model ranks (the source ranks all of them)
NumTags == 3

Vocabulary == SubSeq(DEFAULT_TAGS, 1, NumTags)

\* (i as f32).sin() for i = 0..63 and (k as f32).cos() for k = 0..83, in halves
\* rounded to the nearest half
DummySin ==
    <<
      0, 2, 2, 0, 0 - 2, 0 - 2, 0 - 1, 1, 2, 1, 0 - 1, 0 - 2, 0 - 1, 1, 2,
      1, 0 - 1, 0 - 2, 0 - 2, 0, 2, 2, 0, 0 - 2, 0 - 2, 0, 2, 2, 1, 0 - 1,
      0 - 2, 0 - 1, 1, 2, 1, 0 - 1, 0 - 2, 0 - 1, 1, 2, 1, 0, 0 - 2, 0 - 2,
      0, 2, 2, 0, 0 - 2, 0 - 2, 0 - 1, 1, 2, 1, 0 - 1, 0 - 2, 0 - 1, 1, 2,
      1, 0 - 1, 0 - 2, 0 - 1, 0
    >>

DummyCos ==
    <<
      2, 1, 0 - 1, 0 - 2, 0 - 1, 1, 2, 2, 0, 0 - 2, 0 - 2, 0, 2, 2, 0,
      0 - 2, 0 - 2, 0 - 1, 1, 2, 1, 0 - 1, 0 - 2, 0 - 1, 1, 2, 1, 0 - 1,
      0 - 2, 0 - 1, 0, 2, 2, 0, 0 - 2, 0 - 2, 0, 2, 2, 1, 0 - 1, 0 - 2,
      0 - 1, 1, 2, 1, 0 - 1, 0 - 2, 0 - 1, 1, 2, 1, 0, 0 - 2, 0 - 2, 0, 2,
      2, 0, 0 - 2, 0 - 2, 0 - 1, 1, 2, 1, 0 - 1, 0 - 2, 0 - 1, 1, 2, 1,
      0 - 1, 0 - 2, 0 - 1, 0, 2, 2, 0, 0 - 2, 0 - 2, 0, 2, 2, 0
    >>

DummyDim == 64

\* the largest dim drawn for a model-backed backend, and the largest number of
\* values its audio model returns
MaxDim == 2
MaxOut == 3

\* what audio_session.run gives for one input: an error (or no usable output
\* tensor), or the values of the output tensor
AudioVals == {0 - 1, 0, 1}

ErrRun == [kind |-> "err", t |-> <<>>, nan |-> {}]

AudioRuns ==
    {ErrRun}
    \cup {[kind |-> "ok", t |-> s, nan |-> {}] :
             s \in UNION {[1..n -> AudioVals] : n \in 0..MaxOut}}
    \cup {[kind |-> "ok", t |-> [i \in 1..n |-> 1], nan |-> {1}] : n \in 1..MaxOut}

\* what the text model gives for a batch: no usable output (no tokenizer, a
\* failed encode or run), or a tensor of shape [rows, d] whose row b is row[b];
\* `short` when the tensor has one row less than the batch; nan: the rows whose
\* first value is NaN
TextVals == {0, 1}

\* the rows drawn for a tensor of width d: all zeros, all ones, one single one
TextRows(d) ==
    {r \in [1..d -> TextVals] : Cardinality({j \in 1..d : r[j] = 1}) \in {0, 1, d}}

NoTextModel ==
    [kind |-> "fallback", short |-> FALSE, d |-> 0, row |-> <<>>, nan |-> {}]

TextModels ==
    {NoTextModel}
    \cup UNION {{[kind |-> "tensor", short |-> FALSE, d |-> d, row |-> r, nan |-> {}] :
                    r \in [1..NumTags -> TextRows(d)]} : d \in 1..MaxDim}
    \cup {[kind |-> "tensor", short |-> sh, d |-> 1,
           row |-> [b \in 1..NumTags |-> <<1>>], nan |-> IF sh THEN {} ELSE {1}] :
             sh \in BOOLEAN}

\* the text models whose tensor has the same values in every row
UniformTextModels ==
    {m \in TextModels : \A b \in DOMAIN m.row : m.row[b] = m.row[1]}

\* A backend instance: its kind (model_name), its dim, and for a model-backed
\* backend what its two models answer: `text` is the text model's answer to a
\* batch, `audio` the set of answers the audio model gives over all inputs
DummyBackend ==
    [kind |-> "dummy-clap", dim |-> DummyDim, text |-> NoTextModel,
     audio |-> {ErrRun}]

ModelBackends(kinds, dims, models, runs) ==
    {[kind |-> k, dim |-> d, text |-> m, audio |-> runs] :
        k \in kinds, d \in dims, m \in models}

Ok(x) == [status |-> "ok", val |-> x]

Panicked == [status |-> "panic", val |-> <<>>]

Hung == [status |-> "hang", val |-> <<>>]

\* DummyBackend::embed_audio
dummy_embed_audio(dim) ==
    [v |-> [i \in 1..dim |-> DummySin[i]], n2 |-> 4, nan |-> {}]

\* DummyBackend::embed_text
dummy_embed_text(dim, texts) ==
    [i \in 1..Len(texts) |->
        [v |-> [j \in 1..dim |-> DummyCos[(i - 1) + (j - 1) + 1]], n2 |-> 4, nan |-> {}]]

target_sr == 48000

\* OnnxBackend::embed_audio and TractBackend::embed_audio up to the model
\* run: decode, resample and spectrogram.  "zeros": vec![0.0; dim] is returned
\* without running the model; "frames": the model is run on the spectrogram
audio_frontend(bytes) ==
    LET d == decode_and_resample(bytes, target_sr)
    IN  IF d.panic THEN "panic"
        ELSE IF d.len = 0 THEN "zeros"
        ELSE LET m == log_mel_spectrogram(d.len, d.sr)
             IN  IF m.diverges THEN "hang"
                 ELSE IF m.out = 0 THEN "zeros"
                 ELSE IF m.out \div n_mels = 0 THEN "zeros"
                 ELSE "frames"

\* OnnxBackend::embed_audio and TractBackend::embed_audio from the model run
\* on: fe is audio_frontend(bytes)
onnx_embed_audio(dim, fe, run) ==
    IF fe = "panic" THEN Panicked
    ELSE IF fe = "hang" THEN Hung
    ELSE IF fe = "zeros" THEN Ok(Zeros(dim))
    ELSE IF run.kind = "err" THEN Ok(Zeros(dim))
    ELSE LET v == l2_normalize([v |-> run.t, n2 |-> 1, nan |-> run.nan])
         IN  IF VecLen(v) > dim /\ VecLen(v) % dim = 0
             THEN Ok(VecSlice(v, dim))
             ELSE Ok(v)

\* OnnxBackend::embed_text and TractBackend::embed_text
onnx_embed_text(dim, texts, tm) ==
    LET batch == Len(texts)
        rows  == IF tm.short THEN batch - 1 ELSE batch
    IN  IF texts = <<>> THEN Ok(<<>>)
        ELSE IF tm.kind = "fallback" THEN Ok([i \in 1..batch |-> Zeros(dim)])
        ELSE IF rows < batch THEN Panicked
        ELSE Ok([b \in 1..batch |->
                    l2_normalize([v |-> tm.row[b], n2 |-> 1,
                                  nan |-> IF b \in tm.nan THEN {1} ELSE {}])])

\* EmbeddingBackend::embed_audio, dispatched on the backend
\* (fe is audio_frontend(bytes), which only the model-backed backends look at)
embed_audio(b, fe, run) ==
    IF b.kind = "dummy-clap" THEN Ok(dummy_embed_audio(b.dim))
    ELSE onnx_embed_audio(b.dim, fe, run)

\* EmbeddingBackend::embed_text
embed_text(b, texts) ==
    IF b.kind = "dummy-clap" THEN Ok(dummy_embed_text(b.dim, texts))
    ELSE onnx_embed_text(b.dim, texts, b.text)

\* EmbeddingBackend::model_name
model_name(b) == b.kind

\* what the backend's audio model can answer
RunsOf(b) == b.audio

InitBackend ==
    /\ decode = DecodeIdle
    /\ resample = ResampleIdle
    /\ mel = MelIdle
    /\ PipeIdle
    /\ backend \in {DummyBackend}
                   \cup ModelBackends({"clap-onnx", "clap-tract"}, 1..MaxDim,
                                      UniformTextModels, AudioRuns)
    /\ call = CallIdle

\* a caller invokes embed_audio and it returns
CallEmbedAudio ==
    /\ call.op = "none"
    /\ \E bytes \in Contents :
          \E fe \in {audio_frontend(bytes)} :
             \E run \in RunsOf(backend) :
                \E r \in {embed_audio(backend, fe, run)} :
                   /\ r.status = "ok"
                   /\ call' = [op |-> "embed_audio", bytes |-> bytes.bytes,
                               n |-> 0, vecs |-> <<r.val>>]
    /\ UNCHANGED <<decode, resample, mel, backend, pipeVars>>

\* a caller invokes embed_text on the first n tags and it returns
CallEmbedText ==
    /\ call.op = "none"
    /\ \E n \in 0..NumTags :
          \E r \in {embed_text(backend, SubSeq(DEFAULT_TAGS, 1, n))} :
             /\ r.status = "ok"
             /\ call' = [op |-> "embed_text", bytes |-> "none", n |-> n,
                         vecs |-> r.val]
    /\ UNCHANGED <<decode, resample, mel, backend, pipeVars>>

\* embed_audio panics (index out of bounds in linear_resample)
CallEmbedAudioPanic ==
    /\ call.op = "none"
    /\ \E bytes \in Contents :
          \E fe \in {audio_frontend(bytes)} :
             /\ \E run \in RunsOf(backend) :
                   embed_audio(backend, fe, run).status = "panic"
             /\ call' = [op |-> "panicked", bytes |-> bytes.bytes, n |-> 0,
                         vecs |-> <<>>]
    /\ UNCHANGED <<decode, resample, mel, backend, pipeVars>>

\* embed_text panics (the output tensor has fewer rows than the batch)
CallEmbedTextPanic ==
    /\ call.op = "none"
    /\ \E n \in 0..NumTags :
          /\ embed_text(backend, SubSeq(DEFAULT_TAGS, 1, n)).status = "panic"
          /\ call' = [op |-> "panicked", bytes |-> "none", n |-> n, vecs |-> <<>>]
    /\ UNCHANGED <<decode, resample, mel, backend, pipeVars>>

NextBackend ==
    \/ CallEmbedAudio
    \/ CallEmbedText
    \/ CallEmbedAudioPanic
    \/ CallEmbedTextPanic

SpecBackend == InitBackend /\ [][NextBackend]_vars

----------------------------------------------------------------------------
(* Strings, paths and the file system *)

\* A String or a PathBuf is the sequence of its characters.
SUPPORTED_EXTS ==
    << <<".", "w", "a", "v">>,
       <<".", "m", "p", "3">>,
       <<".", "f", "l", "a", "c">>,
       <<".", "o", "g", "g">>,
       <<".", "m", "4", "a">>,
       <<".", "w", "e", "b", "m">> >>

Range(f) == {f[i] : i \in DOMAIN f}

UpperChars == <<"A", "B", "C", "D", "E", "F", "G", "H", "I", "J", "K", "L", "M",
                "N", "O", "P", "Q", "R", "S", "T", "U", "V", "W", "X", "Y", "Z">>

LowerChars == <<"a", "b", "c", "d", "e", "f", "g", "h", "i", "j", "k", "l", "m",
                "n", "o", "p", "q", "r", "s", "t", "u", "v", "w", "x", "y", "z">>

\* str::to_lowercase
to_lowercase(str) ==
    [i \in 1..Len(str) |->
        IF str[i] \in Range(UpperChars)
        THEN LowerChars[CHOOSE k \in 1..Len(UpperChars) : UpperChars[k] = str[i]]
        ELSE str[i]]

\* the last position of character c in str, 0 when there is none
LastIndexOf(str, c) ==
    LET hits == {i \in 1..Len(str) : str[i] = c}
    IN  IF hits = {} THEN 0 ELSE CHOOSE i \in hits : \A j \in hits : j <= i

\* Path::file_name
file_name(p) == SubSeq(p, LastIndexOf(p, "/") + 1, Len(p))

\* Path::extension: the part of the file name after its last '.', None when
\* the name has no '.' or only a leading one
extension(p) ==
    LET f == file_name(p)
        k == LastIndexOf(f, ".")
    IN  IF k <= 1 THEN [some |-> FALSE, ext |-> <<>>]
        ELSE [some |-> TRUE, ext |-> SubSeq(f, k + 1, Len(f))]

\* an is_supported that compares the extension as it is written
is_supported_case_sensitive(p) ==
    LET e == extension(p)
    IN  IF e.some
        THEN (<<".">> \o e.ext) \in Range(SUPPORTED_EXTS)
        ELSE FALSE

is_supported(p) ==
    LET e == extension(p)
    IN  IF e.some
        THEN to_lowercase(<<".">> \o e.ext) \in Range(SUPPORTED_EXTS)
        ELSE FALSE

A_WAV == <<"a", ".", "w", "a", "v">>

B_MP3 == <<"b", ".", "M", "P", "3">>

NOTES_TXT == <<"n", "o", "t", "e", "s", ".", "t", "x", "t">>

LOCKED_OGG == <<"l", "o", "c", "k", "e", "d", ".", "o", "g", "g">>

LIB == <<"l", "i", "b">>

LIB_C_FLAC == <<"l", "i", "b", "/", "c", ".", "f", "l", "a", "c">>

LIB_README == <<"l", "i", "b", "/", "r", "e", "a", "d", "m", "e", ".", "m", "d">>

VAULT == <<"v", "a", "u", "l", "t">>

VAULT_X_WAV == <<"v", "a", "u", "l", "t", "/", "x", ".", "w", "a", "v">>

MISSING == <<"g", "o", "n", "e", ".", "w", "a", "v">>

\* the regular files of the file system and what reading them gives;
\* LOCKED_OGG exists but cannot be opened (permission denied)
FsFiles ==
    {A_WAV, B_MP3, NOTES_TXT, LOCKED_OGG, LIB_C_FLAC, LIB_README, VAULT_X_WAV}

FsDirs == {LIB, VAULT}

Readable(f) == f # LOCKED_OGG

ContentOf(f) ==
    CASE f = A_WAV       -> OkAudio
      [] f = B_MP3       -> EmptyBytes
      [] f = NOTES_TXT   -> GarbageBytes
      [] f = LIB_C_FLAC  -> CorruptAudio
      [] f = LIB_README  -> GarbageBytes
      [] f = VAULT_X_WAV -> ShortAudio
      [] OTHER           -> EmptyBytes

\* An entry WalkDir yields: a path with its file type, or an error
WalkEntry(p) == [err |-> FALSE, path |-> p, is_file |-> p \in FsFiles]

WalkError == [err |-> TRUE, path |-> <<>>, is_file |-> FALSE]

\* The sequences WalkDir::new(dir) can yield: the directory itself, then its
\* entries in the order the operating system lists them.  VAULT holds a
\* subdirectory that cannot be read, for which WalkDir yields an error.
Walks(dir) ==
    IF dir = LIB
    THEN {<<WalkEntry(LIB), WalkEntry(LIB_C_FLAC), WalkEntry(LIB_README)>>,
          <<WalkEntry(LIB), WalkEntry(LIB_README), WalkEntry(LIB_C_FLAC)>>}
    ELSE {<<WalkEntry(VAULT), WalkEntry(VAULT_X_WAV), WalkError>>,
          <<WalkEntry(VAULT), WalkError, WalkEntry(VAULT_X_WAV)>>}

\* the paths a caller passes, at most MaxPaths of them
InputPaths == {A_WAV, B_MP3, NOTES_TXT, LOCKED_OGG, LIB, VAULT, MISSING}

MaxPaths == 2

PathLists == UNION {[1..n -> InputPaths] : n \in 0..MaxPaths}

----------------------------------------------------------------------------
(* expand_audio_files *)

ExpandOk(out) == [ok |-> TRUE, files |-> out, err |-> "none"]

ExpandErr(kind) == [ok |-> FALSE, files |-> <<>>, err |-> kind]

\* the `for entry in WalkDir::new(&p)` loop over one directory's entries
RECURSIVE walk_dir(_, _)
walk_dir(entries, out) ==
    IF entries = <<>> THEN ExpandOk(out)
    ELSE LET e == Head(entries)
         IN  IF e.err THEN ExpandErr("Other")
             ELSE IF e.is_file /\ is_supported(e.path)
             THEN walk_dir(Tail(entries), Append(out, e.path))
             ELSE walk_dir(Tail(entries), out)

\* a loop that skips a path that is neither a file nor a directory
RECURSIVE expand_loop_skipping(_, _, _)
expand_loop_skipping(inputs, out, walk) ==
    IF inputs = <<>> THEN ExpandOk(out)
    ELSE LET p == Head(inputs)
         IN  IF p \in FsFiles
             THEN expand_loop_skipping(Tail(inputs),
                                       IF is_supported(p) THEN Append(out, p) ELSE out,
                                       walk)
             ELSE IF p \in FsDirs
             THEN LET w == walk_dir(walk[p], out)
                  IN  IF w.ok THEN expand_loop_skipping(Tail(inputs), w.files, walk)
                      ELSE w
             ELSE expand_loop_skipping(Tail(inputs), out, walk)

\* the `for p in inputs` loop; walk[d] is what WalkDir yields for directory d
RECURSIVE expand_loop(_, _, _)
expand_loop(inputs, out, walk) ==
    IF inputs = <<>> THEN ExpandOk(out)
    ELSE LET p == Head(inputs)
         IN  IF p \in FsFiles
             THEN expand_loop(Tail(inputs),
                              IF is_supported(p) THEN Append(out, p) ELSE out,
                              walk)
             ELSE IF p \in FsDirs
             THEN LET w == walk_dir(walk[p], out)
                  IN  IF w.ok THEN expand_loop(Tail(inputs), w.files, walk)
                      ELSE w
             ELSE ExpandErr("Invalid")

expand_audio_files(inputs, walk) == expand_loop(inputs, <<>>, walk)

----------------------------------------------------------------------------
(* TagInferencer::infer_file *)

\* a join that ends every element, the last one too, with the separator
RECURSIVE join_trailing(_, _)
join_trailing(strs, sep) ==
    IF strs = <<>> THEN <<>>
    ELSE strs[1] \o sep \o join_trailing(Tail(strs), sep)

\* [String]::join
RECURSIVE join(_, _)
join(strs, sep) ==
    IF strs = <<>> THEN <<>>
    ELSE IF Len(strs) = 1 THEN strs[1]
    ELSE strs[1] \o sep \o join(Tail(strs), sep)

\* a comparator that also moves a in front of an equal b
sims_before_or_equal(a, b) == ~SimLess(a.sim, b.sim)

\* the comparator of sims.sort_by: a sorts before b when b.1 < a.1
sims_before(a, b) == SimLess(b.sim, a.sim)

\* x inserted into the sorted sequence s behind every element it does not
\* sort before
RECURSIVE insert_sorted(_, _)
insert_sorted(s, x) ==
    IF s = <<>> THEN <<x>>
    ELSE IF sims_before(x, Head(s)) THEN <<x>> \o s
    ELSE <<Head(s)>> \o insert_sorted(Tail(s), x)

\* slice::sort_by, a stable sort: equal elements keep their order
RECURSIVE sort_by(_)
sort_by(s) ==
    IF s = <<>> THEN <<>>
    ELSE insert_sorted(sort_by(SubSeq(s, 1, Len(s) - 1)), s[Len(s)])

\* a count that forgets top_k
take_all(k, n) == n

\* let top_k = cfg.top_k.min(sims.len())
take_count(k, n) == Min(k, n)

\* how a call of infer_file ends: "ok" with the FileCaption val, "io" with an
\* error, or "panic" / "hang"; with the audio_emb and the sims it had computed
\* by then (NoEmbedding and <<>> when it had not)
InferResult(status, val, audio, sims0) ==
    [status |-> status, val |-> val, audio |-> audio, sims |-> sims0]

\* lines 726-744 of infer_file: the similarities in vocabulary order, their
\* ranking and the FileCaption built from it
rank_tags(file, audio_emb0, text_embs, k, name) ==
    LET sims0 == [i \in 1..Len(text_embs) |->
                     [i |-> i, sim |-> cosine(audio_emb0, text_embs[i])]]
    IN  \* partial_cmp(..).unwrap() panics on the first NaN it meets, and a
        \* sort of two or more elements compares every element at least once
        IF Len(sims0) >= 2 /\ \E i \in 1..Len(sims0) : sims0[i].sim.nan
        THEN InferResult("panic", <<>>, audio_emb0, sims0)
        ELSE LET sorted == sort_by(sims0)
                 n      == take_count(k, Len(sorted))
                 tags   == [j \in 1..n |-> DEFAULT_TAGS[sorted[j].i]]
             IN  InferResult("ok",
                             [file |-> file, caption |-> join(tags, <<",", " ">>),
                              tags |-> tags, model |-> name],
                             audio_emb0, sims0)

\* File::open(file)?.read_to_end(&mut buf)? and what the audio front end of a
\* model-backed backend makes of buf; "io" when the file cannot be read
read_file(file) ==
    IF ~Readable(file) THEN "io" ELSE audio_frontend(ContentOf(file))

\* infer_file; fe is read_file(file)
infer_file(b, file, fe, k, run) ==
    IF fe = "io" THEN InferResult("io", <<>>, NoEmbedding, <<>>)
    ELSE LET a == embed_audio(b, fe, run)
         IN  IF a.status # "ok" THEN InferResult(a.status, <<>>, NoEmbedding, <<>>)
             ELSE LET t == embed_text(b, Vocabulary)
                  IN  IF t.status # "ok" THEN InferResult(t.status, <<>>, a.val, <<>>)
                      ELSE rank_tags(file, a.val, t.val, k, model_name(b))

----------------------------------------------------------------------------
(* main and TagInferencer::infer_paths *)

RetNone == [kind |-> "none", val |-> <<>>, err |-> "none"]

RetOk(v) == [kind |-> "ok", val |-> v, err |-> "none"]

RetErr(e) == [kind |-> "err", val |-> <<>>, err |-> e]

\* the backends main builds for a whole run
PipelineTextModels ==
    {m \in UniformTextModels :
        m.kind = "fallback" \/ (m.row[1] = <<1>> /\ ~m.short /\ m.nan = {})}

InitPipeline(lists, backends) ==
    /\ decode = DecodeIdle
    /\ resample = ResampleIdle
    /\ mel = MelIdle
    /\ call = CallIdle
    /\ backend \in backends
    /\ pc = "start"
    /\ paths \in lists
    /\ top_k \in 0..(NumTags + 1)
    /\ files = <<>>
    /\ results = <<>>
    /\ ret = RetNone
    /\ stdout = <<>>
    /\ opened = <<>>
    /\ sims = <<>>
    /\ audio_emb = NoEmbedding

\* an audio model with few answers
PipelineAudioRuns ==
    {r \in AudioRuns : r.kind = "err" \/ r.t = <<1>> \/ r.t = <<0, 1>>}

Init ==
    InitPipeline(PathLists,
                 {DummyBackend}
                 \cup ModelBackends({"clap-onnx"}, 1..MaxDim, PipelineTextModels,
                                    PipelineAudioRuns))

\* let files = expand_audio_files(paths)?  succeeds
ExpandFiles ==
    /\ pc = "start"
    /\ \E walk \in [FsDirs -> UNION {Walks(d) : d \in FsDirs}] :
          /\ \A d \in FsDirs : walk[d] \in Walks(d)
          /\ \E r \in {expand_audio_files(paths, walk)} :
                /\ r.ok
                /\ files' = r.files
    /\ pc' = "infer"
    /\ UNCHANGED <<decode, resample, mel, backend, call, paths, top_k, results, ret,
                   stdout, opened, sims, audio_emb>>

\* expand_audio_files(paths)? fails and infer_paths returns the error
ExpandFails ==
    /\ pc = "start"
    /\ \E walk \in [FsDirs -> UNION {Walks(d) : d \in FsDirs}] :
          /\ \A d \in FsDirs : walk[d] \in Walks(d)
          /\ \E r \in {expand_audio_files(paths, walk)} :
                /\ ~r.ok
                /\ ret' = RetErr(r.err)
    /\ pc' = "returned"
    /\ UNCHANGED <<decode, resample, mel, backend, call, paths, top_k, files, results,
                   stdout, opened, sims, audio_emb>>

\* the file the iterator hands to infer_file next
NextFile == files[Len(results) + 1]

\* .map(|f| self.infer_file(&f, cfg)) yields Ok for the next file
InferFileOk ==
    /\ pc = "infer"
    /\ Len(results) < Len(files)
    /\ \E fe \in {read_file(NextFile)} :
          \E run \in RunsOf(backend) :
             \E r \in {infer_file(backend, NextFile, fe, top_k, run)} :
                /\ r.status = "ok"
                /\ results' = Append(results, r.val)
                /\ sims' = r.sims
                /\ audio_emb' = r.audio
    /\ opened' = Append(opened, NextFile)
    /\ UNCHANGED <<decode, resample, mel, backend, call, pc, paths, top_k, files, ret,
                   stdout>>

\* an infer_paths that answers a failed file with the results collected so far
InferFileErrKeepsResults ==
    /\ pc = "infer"
    /\ Len(results) < Len(files)
    /\ \E fe \in {read_file(NextFile)} :
          \A run \in RunsOf(backend) :
             infer_file(backend, NextFile, fe, top_k, run).status = "io"
    /\ opened' = Append(opened, NextFile)
    /\ ret' = RetOk(results)
    /\ pc' = "returned"
    /\ sims' = <<>>
    /\ audio_emb' = NoEmbedding
    /\ UNCHANGED <<decode, resample, mel, backend, call, paths, top_k, files, results,
                   stdout>>

\* infer_file yields Err: collect() stops, drops what it has collected and
\* infer_paths returns the error
InferFileErr ==
    /\ pc = "infer"
    /\ Len(results) < Len(files)
    /\ \E fe \in {read_file(NextFile)} :
          \A run \in RunsOf(backend) :
             infer_file(backend, NextFile, fe, top_k, run).status = "io"
    /\ opened' = Append(opened, NextFile)
    /\ results' = <<>>
    /\ ret' = RetErr("Io")
    /\ pc' = "returned"
    /\ sims' = <<>>
    /\ audio_emb' = NoEmbedding
    /\ UNCHANGED <<decode, resample, mel, backend, call, paths, top_k, files, stdout>>

\* infer_file panics: the process dies
InferFilePanic ==
    /\ pc = "infer"
    /\ Len(results) < Len(files)
    /\ \E fe \in {read_file(NextFile)} :
          \E run \in RunsOf(backend) :
             \E r \in {infer_file(backend, NextFile, fe, top_k, run)} :
                /\ r.status = "panic"
                /\ sims' = r.sims
                /\ audio_emb' = r.audio
    /\ opened' = Append(opened, NextFile)
    /\ results' = <<>>
    /\ pc' = "panicked"
    /\ UNCHANGED <<decode, resample, mel, backend, call, paths, top_k, files, ret,
                   stdout>>

\* the iterator is exhausted: collect() returns Ok(results)
Collect ==
    /\ pc = "infer"
    /\ Len(results) = Len(files)
    /\ ret' = RetOk(results)
    /\ pc' = "returned"
    /\ UNCHANGED <<decode, resample, mel, backend, call, paths, top_k, files, results,
                   stdout, opened, sims, audio_emb>>

\* main prints the results as JSON to stdout
MainPrint ==
    /\ pc = "returned"
    /\ ret.kind = "ok"
    /\ stdout' = ret.val
    /\ pc' = "exit_ok"
    /\ UNCHANGED <<decode, resample, mel, backend, call, paths, top_k, files, results,
                   ret, opened, sims, audio_emb>>

\* main returns the error of infer_paths (the `?` on line 76)
MainFail ==
    /\ pc = "returned"
    /\ ret.kind = "err"
    /\ pc' = "exit_err"
    /\ UNCHANGED <<decode, resample, mel, backend, call, paths, top_k, files, results,
                   ret, stdout, opened, sims, audio_emb>>

Next ==
    \/ ExpandFiles
    \/ ExpandFails
    \/ InferFileOk
    \/ InferFileErr
    \/ InferFilePanic
    \/ Collect
    \/ MainPrint
    \/ MainFail

Spec == Init /\ [][Next]_vars

\* one file, every text model
RankLists == {<<A_WAV>>, <<B_MP3>>, <<LOCKED_OGG>>, <<MISSING>>}

\* an audio model whose output tensor has MaxDim values, or none
RankAudioRuns == {r \in AudioRuns : r.kind = "err" \/ Len(r.t) \in {0, MaxDim}}

InitRank ==
    InitPipeline(RankLists,
                 {DummyBackend}
                 \cup ModelBackends({"clap-onnx"}, {MaxDim}, TextModels,
                                    RankAudioRuns))

SpecRank == InitRank /\ [][Next]_vars

----------------------------------------------------------------------------
(* Properties of the tag ranker (SpecRank) *)

\* the FileCaption of the file ranked last; `sims` holds its similarities
LastResult == results[Len(results)]

InVocabulary(tag) == \E i \in 1..NumTags : Vocabulary[i] = tag

VocabIndex(tag) == CHOOSE i \in 1..NumTags : Vocabulary[i] = tag

\* C1: the tags infer_file returns are ordered by cosine similarity, highest
\* first; of two returned tags with equal similarity the one earlier in the
\* vocabulary comes first; and no tag left out has a higher similarity than a
\* returned one.
C1_RankedByCosine ==
    results # <<>> =>
        LET tags   == LastResult.tags
            Idx(p) == VocabIndex(tags[p])
            S(p)   == sims[Idx(p)].sim
            kept   == {Idx(p) : p \in 1..Len(tags)}
        IN  /\ Len(sims) = NumTags
            /\ \A p \in 1..Len(tags) : InVocabulary(tags[p])
            /\ \A p, q \in 1..Len(tags) :
                  p < q => \/ SimLess(S(q), S(p))
                           \/ (S(p) = S(q) /\ Idx(p) < Idx(q))
            /\ \A i \in (1..NumTags) \ kept :
                  \A p \in 1..Len(tags) : ~SimLess(S(p), sims[i].sim)

\* similarities [1, 0, 0, ...] and top_k = 2 give the first two vocabulary tags:
\* the second wins the tie against the later ones
C1_Witness ==
    /\ pc = "exit_ok"
    /\ top_k = 2
    /\ Len(sims) = NumTags
    /\ sims[1].sim = SimFrac(1, 1)
    /\ \A i \in 2..NumTags : sims[i].sim = SimZero
    /\ stdout[1].tags = <<Vocabulary[1], Vocabulary[2]>>

\* C2: infer_file returns exactly min(top_k, N) tags, all of them distinct
\* entries of the N-tag vocabulary; with top_k >= N the tags are a permutation
\* of the whole vocabulary.
C2_TagCount ==
    results # <<>> =>
        LET tags == LastResult.tags
        IN  /\ Len(tags) = (IF top_k <= NumTags THEN top_k ELSE NumTags)
            /\ \A p \in 1..Len(tags) : InVocabulary(tags[p])
            /\ \A p, q \in 1..Len(tags) : p # q => tags[p] # tags[q]
            /\ top_k >= NumTags =>
                  {tags[p] : p \in 1..Len(tags)} = {Vocabulary[i] : i \in 1..NumTags}

\* top_k exceeds the vocabulary and the ranking is not the vocabulary order
C2_Witness ==
    /\ results # <<>>
    /\ top_k = NumTags + 1
    /\ Len(LastResult.tags) = NumTags
    /\ LastResult.tags # Vocabulary

\* the position in the caption just before tag j: the tags before it and a
\* two-character separator behind each of them
RECURSIVE CaptionOffset(_, _)
CaptionOffset(tags, j) ==
    IF j = 1 THEN 0 ELSE CaptionOffset(tags, j - 1) + Len(tags[j - 1]) + 2

\* str::split(',').count(): one piece more than there are commas
SplitCount(str) == Cardinality({c \in 1..Len(str) : str[c] = ","}) + 1

\* C3: in every result the caption is the tags in order with ", " between
\* neighbours; with top_k = 0 the tags and the caption are both empty; with
\* top_k >= 1 the caption is not empty and splitting it on ',' gives as many
\* pieces as there are tags, at most top_k.
C3_Caption ==
    \A r \in 1..Len(results) :
        LET tags    == results[r].tags
            caption == results[r].caption
            n       == Len(tags)
        IN  /\ Len(caption) = IF n = 0 THEN 0
                              ELSE CaptionOffset(tags, n) + Len(tags[n])
            /\ \A j \in 1..n :
                  /\ \A c \in 1..Len(tags[j]) :
                        caption[CaptionOffset(tags, j) + c] = tags[j][c]
                  /\ j < n =>
                        /\ caption[CaptionOffset(tags, j) + Len(tags[j]) + 1] = ","
                        /\ caption[CaptionOffset(tags, j) + Len(tags[j]) + 2] = " "
            /\ top_k = 0 => tags = <<>> /\ caption = <<>>
            /\ top_k >= 1 =>
                  /\ caption # <<>>
                  /\ SplitCount(caption) = n
                  /\ n <= top_k

\* a run with top_k = 0 ends well and prints a result without tags or caption
C3_Witness ==
    /\ pc = "exit_ok"
    /\ top_k = 0
    /\ stdout # <<>>
    /\ stdout[1].tags = <<>>
    /\ stdout[1].caption = <<>>

----------------------------------------------------------------------------
(* Properties of the batch driver (Spec) *)

\* C4: when infer_paths returns Ok it holds one FileCaption per discovered
\* file, the i-th for the i-th discovered file; in every other outcome the
\* caller gets no per-file result, and main prints the complete list or nothing.
C4_CompleteOrdered ==
    /\ ret.kind = "ok" =>
          /\ Len(ret.val) = Len(files)
          /\ \A i \in 1..Len(files) : ret.val[i].file = files[i]
    /\ ret.kind # "ok" => ret.val = <<>> /\ stdout = <<>>
    /\ stdout # <<>> => stdout = ret.val
    /\ pc = "exit_ok" => stdout = ret.val /\ Len(stdout) = Len(files)

\* a run over two files ends with both results printed, in the order discovered
C4_Witness ==
    /\ pc = "exit_ok"
    /\ Len(files) = 2
    /\ files[1] # files[2]
    /\ Len(stdout) = 2
    /\ stdout[1].file = files[1]
    /\ stdout[2].file = files[2]

\* C5: a failure while processing one discovered file never aborts the batch:
\* once infer_file has been entered for a file, infer_paths still returns
\* results (as stated; the code aborts, see InferFileErr and InferFilePanic).
C5_BatchSurvives ==
    opened # <<>> => ret.kind # "err" /\ pc # "panicked"

\* the input list names a path that is neither a file nor a directory
BadPaths == {i \in 1..Len(paths) : paths[i] \notin FsFiles \cup FsDirs}

\* the walk of directory d can yield an error
WalkCanFail(d) == \E w \in Walks(d) : \E e \in 1..Len(w) : w[e].err

\* C6 as stated: with a bad path in the list the invocation fails with the
\* invalid-path error before any file is opened and any result produced.
C6_AlwaysInvalid ==
    BadPaths # {} =>
        /\ opened = <<>> /\ results = <<>> /\ stdout = <<>>
        /\ pc \in {"start", "returned", "exit_err"}
        /\ pc # "start" => ret = RetErr("Invalid")

\* C6: with a bad path in the list the invocation fails before any file is
\* opened and any result produced; the error is the invalid-path error unless
\* the walk of a directory listed before the first bad path failed, and then
\* it is that walk's error.
C6_FailsBeforeProcessing ==
    BadPaths # {} =>
        /\ opened = <<>> /\ results = <<>> /\ stdout = <<>>
        /\ pc \in {"start", "returned", "exit_err"}
        /\ pc # "start" =>
              \/ ret = RetErr("Invalid")
              \/ /\ ret = RetErr("Other")
                 /\ \E j \in 1..Len(paths) :
                       /\ \A i \in BadPaths : j < i
                       /\ paths[j] \in FsDirs
                       /\ WalkCanFail(paths[j])

\* a valid file precedes the bad path and the run fails with the invalid-path
\* error, no file opened
C6_Witness ==
    /\ pc = "exit_err"
    /\ Len(paths) = 2
    /\ paths[1] \in FsFiles /\ is_supported(paths[1])
    /\ 2 \in BadPaths
    /\ ret = RetErr("Invalid")
    /\ opened = <<>>

----------------------------------------------------------------------------
(* Properties of the backends (SpecBackend) *)

\* byte buffers that are empty, undecodable or too short for one window
UnusableBytes == {"empty", "garbage", "short", "cd_click"}

\* C7: on unusable or empty audio input every backend's embed_audio returns
\* exactly dim zeros and does not fail (as stated; DummyBackend ignores its
\* input and linear_resample can panic).
C7_ZerosOnUnusable ==
    call.bytes \in UnusableBytes =>
        /\ call.op # "panicked"
        /\ call.op = "embed_audio" => call.vecs = <<Zeros(backend.dim)>>

\* C8: every vector a backend returns has length dim, and embed_text returns
\* one vector per input string (as stated; the model-backed backends return
\* vectors as wide as the model's output).
C8_ConstantDim ==
    /\ \A i \in 1..Len(call.vecs) : VecLen(call.vecs[i]) = backend.dim
    /\ call.op = "embed_text" => Len(call.vecs) = call.n

----------------------------------------------------------------------------
(* Properties of log_mel_spectrogram (SpecMel) and linear_resample
   (SpecResample) *)

\* floor((len - win_len) / hop) + 1 frames from win_len samples on, else none
ExpectedFrames(len, hop) ==
    IF len >= win_len THEN ((len - win_len) \div hop) + 1 ELSE 0

\* C9: log_mel_spectrogram returns, for every PCM length and every positive
\* sample rate, whole frames of n_mels values, floor((len - win_len) / hop) + 1
\* of them when len >= win_len and none otherwise (as stated; with a sample
\* rate below 100 the hop is 0 and the call does not return).
C9_FrameCount ==
    /\ mel.pc # "aborted"
    /\ mel.pc = "done" =>
          /\ mel.out % n_mels = 0
          /\ mel_hop(mel.sr) > 0 =>
                mel.out = n_mels * ExpectedFrames(mel.len, mel_hop(mel.sr))
          /\ mel.len = 0 => mel.out = 0

\* ceil(a / b) for naturals, b > 0
CeilDiv(a, b) == (a + b - 1) \div b

\* C10: linear_resample returns exactly ceil(len * dst / src) samples for
\* every input length and every pair of positive rates (as stated; the f32
\* product can round up past an integer, and the call can then panic).
C10_OutputLength ==
    /\ resample.pc # "panicked"
    /\ resample.pc = "returned" =>
          resample.out = CeilDiv(resample.len * resample.dst, resample.src)

\* C11: linear_resample is the identity when the source rate equals the target
\* rate and when the input is empty: the returned buffer has the length of the
\* input and at every index the input's own sample.
C11_Identity ==
    (resample.pc = "returned" /\ (resample.src = resample.dst \/ resample.len = 0)) =>
        /\ resample.out = resample.len
        /\ Len(resample.buf) = resample.len
        /\ \A k \in 1..resample.len : resample.buf[k] = Copy(k - 1)

\* a buffer of several samples came back from a call with equal rates
C11_Witness ==
    /\ resample.pc = "returned"
    /\ resample.src = resample.dst
    /\ resample.len >= 3
    /\ Len(resample.buf) = resample.len
    /\ resample.buf[resample.len] = Copy(resample.len - 1)

----------------------------------------------------------------------------
(* Properties of decode_and_resample (SpecDecode) *)

\* the index of the first packet that ends the loop (a failed read or a decode
\* error other than DecodeError), or one past the last packet
LoopEnd(all) ==
    LET ends == {i \in 1..Len(all) : all[i].kind \in {"fatal", "read_error"}}
    IN  IF ends = {} THEN Len(all) + 1
        ELSE CHOOSE i \in ends : \A j \in ends : i <= j

\* the packets of the selected track that decode successfully before the loop
\* ends
DecodedBefore(all) ==
    {i \in 1..(LoopEnd(all) - 1) : all[i].kind \in {"ok", "other_fmt"}}

\* C12: decode_and_resample never fails to its caller, and once the packet
\* loop has ended the PCM is the in-order concatenation of the frames of the
\* packets of the selected track that decoded successfully before the loop
\* ended (as stated; buffers of other sample formats are dropped, and
\* linear_resample can panic).
C12_BestEffort ==
    /\ decode.pc # "panicked"
    /\ decode.pc = "after" =>
          /\ {decode.pcm[j].pkt : j \in 1..Len(decode.pcm)} = DecodedBefore(decode.all)
          /\ \A j \in 1..Len(decode.pcm) :
                /\ decode.pcm[j].frames = decode.all[decode.pcm[j].pkt].frames
                /\ \A k \in 1..(j - 1) : decode.pcm[k].pkt < decode.pcm[j].pkt

----------------------------------------------------------------------------
(* Properties of file discovery (Spec) *)

\* the same letter, whatever its case
SameLetter(a, b) ==
    \/ a = b
    \/ \E k \in 1..Len(UpperChars) : {a, b} = {UpperChars[k], LowerChars[k]}

\* the file name of f ends, behind at least one other character, with an
\* extension of the allowlist in any mix of cases
HasSupportedExt(f) ==
    \E e \in 1..Len(SUPPORTED_EXTS) :
        LET ext == SUPPORTED_EXTS[e]
            n   == Len(ext)
        IN  /\ Len(f) > n
            /\ f[Len(f) - n] # "/"
            /\ \A c \in 1..n : SameLetter(f[Len(f) - n + c], ext[c])

\* file f lies under directory d
Under(f, d) ==
    /\ Len(f) > Len(d) + 1
    /\ SubSeq(f, 1, Len(d)) = d
    /\ f[Len(d) + 1] = "/"

\* input path p names file f, or a directory that holds it
Covers(p, f) == p = f \/ (p \in FsDirs /\ Under(f, p))

\* expand_audio_files has returned Ok
Discovered ==
    \/ pc \in {"infer", "panicked", "exit_ok"}
    \/ pc \in {"returned", "exit_err"} /\ (ret.kind = "ok" \/ ret.err = "Io")

\* C13: discovery keeps exactly the files whose extension, whatever its case,
\* is in the allowlist: every discovered file is such a file, every such file
\* named by an input path or lying under an input directory is discovered,
\* once per input that covers it, and no other file is; a run that ends well
\* prints one result for each of them (a directory with one supported and one
\* unsupported file gives exactly one result).
C13_Discovery ==
    Discovered =>
        /\ \A i \in 1..Len(files) : files[i] \in FsFiles /\ HasSupportedExt(files[i])
        /\ \A f \in FsFiles :
              Cardinality({i \in 1..Len(files) : files[i] = f})
                 = IF HasSupportedExt(f)
                   THEN Cardinality({j \in 1..Len(paths) : Covers(paths[j], f)})
                   ELSE 0
        /\ pc = "exit_ok" =>
              /\ Len(stdout) = Len(files)
              /\ \A i \in 1..Len(files) : stdout[i].file = files[i]

\* the directory with one supported and one unsupported file gives one result,
\* for the supported file
C13_Witness ==
    /\ pc = "exit_ok"
    /\ paths = <<LIB>>
    /\ Len(stdout) = 1
    /\ stdout[1].file = LIB_C_FLAC

----------------------------------------------------------------------------
(* Properties of cosine on vectors of norm 0 (SpecRank) *)

\* the norm of x is 0.0: x is empty or all zeros
IsZeroNorm(x) == x.nan = {} /\ SumSq(x) = 0

\* C14: cosine gives exactly 0 when either operand has norm 0 (an all-zero or
\* an empty vector), whatever the other operand is; so with an audio embedding
\* of norm 0 every candidate scores 0, the sort goes through, and the tags are
\* the first min(top_k, N) tags of the vocabulary in vocabulary order.
C14_ZeroNorm ==
    sims # <<>> =>
        LET t == embed_text(backend, Vocabulary).val
        IN  /\ Len(sims) = Len(t)
            /\ \A i \in 1..Len(t) :
                  IsZeroNorm(audio_emb) \/ IsZeroNorm(t[i]) => sims[i].sim = SimZero
            /\ IsZeroNorm(audio_emb) =>
                  /\ pc # "panicked"
                  /\ results # <<>>
                  /\ LastResult.tags = SubSeq(Vocabulary, 1, Min(top_k, NumTags))

\* a zero audio embedding was ranked against text embeddings none of which
\* has norm 0, one of them NaN, and fewer tags were asked for than there are
C14_Witness ==
    /\ results # <<>>
    /\ sims # <<>>
    /\ IsZeroNorm(audio_emb)
    /\ VecLen(audio_emb) > 0
    /\ backend.text.kind = "tensor"
    /\ backend.text.nan # {}
    /\ top_k \in 1..(NumTags - 1)
    /\ Len(LastResult.tags) = top_k

----------------------------------------------------------------------------
(* Properties of the hop of log_mel_spectrogram (SpecMel) *)

\* C15: log_mel_spectrogram terminates for every PCM buffer and every positive
\* sample rate: whenever the loop has a window left to process the hop is at
\* least one sample, so idx advances, and the call is never cut short.
C15_Terminates ==
    /\ mel.pc # "aborted"
    /\ mel.pc = "loop" /\ mel.idx + win_len <= mel.len => mel_hop(mel.sr) >= 1

\* round(sample_rate * 0.01), halves away from zero
RoundedHop(sample_rate) == (sample_rate + 50) \div 100

\* C17: the hop log_mel_spectrogram advances by is round(sample_rate * 0.01)
\* samples, for every positive sample rate.
C17_HopRounds ==
    mel.pc \in {"loop", "done", "aborted"} /\ mel.len # 0 =>
        mel_hop(mel.sr) = RoundedHop(mel.sr)

----------------------------------------------------------------------------
(* Properties of the interpolation loop of linear_resample (SpecResample) *)

\* C16: with differing rates and a non-empty input linear_resample never reads
\* past the end of the input: every output sample is taken at a lower index
\* of at most len - 1; it is the last input sample unchanged when the upper
\* neighbour would be out of range, and a blend of the two neighbours
\* otherwise.
C16_InBounds ==
    /\ resample.pc # "panicked"
    /\ (resample.pc = "returned" /\ resample.src # resample.dst /\ resample.len > 0) =>
          \A k \in 1..Len(resample.buf) :
             LET tap == resample.buf[k]
             IN  /\ tap.lo <= resample.len - 1
                 /\ tap.lo + 1 >= resample.len => tap = Copy(resample.len - 1)
                 /\ tap.lo + 1 < resample.len => tap.kind = "blend"

----------------------------------------------------------------------------
(* Properties of the ranking step of infer_file (SpecRank) *)

\* C18: the ranking step of infer_file never aborts: once the similarities
\* of a file have been computed, whatever the embeddings were, the sort and
\* the mapping to tags complete and the call yields a result.
C18_RankingCompletes ==
    sims # <<>> => pc # "panicked" /\ results # <<>>

====
